---- MODULE Spec2Model ----
(***************************************************************************)
(* CodeCounter: a recursive counter of non-empty source lines, in three    *)
(* variants (code_counter.py: thread pool; code_counter_turbo.py: process  *)
(* or thread pool with byte-level counting; code_counter_benchmark.py:     *)
(* single-threaded baseline).                                              *)
(*                                                                         *)
(* The module holds six specifications  over disjoint groups of variables: *)
(*   SpecPart     the Batch Partitioner (a pure function of n and w)       *)
(*   SpecCount    the Line Counter (pure functions of a file's bytes)      *)
(*   SpecCollect  the File Collector (pure functions of a directory tree)  *)
(*   Spec         one run of a program: main, the pool, the merge loop     *)
(*   SpecCompare  the thread-pool program and the baseline on one tree     *)
(*   SpecBatch    a worker's call on one batch of files of the disk        *)
(* A specification leaves the variables of the other groups unchanged.     *)
(***************************************************************************)
EXTENDS Integers, Sequences, FiniteSets, TLC

VARIABLES
    \* ---- SpecPart
    p_pc,            \* "input" | "done"
    p_mode,          \* "thread" | "turbo_processes" | "turbo_threads"
    p_items,         \* files_to_process: the work list
    p_workers,       \* max_workers
    p_batch_size,    \* batch_size
    p_batches,       \* file_batches / batches
    \* ---- SpecCount
    c_content,       \* the bytes of the file at file_path
    c_readable,      \* FALSE: opening or reading the file raises OSError
    c_ran,           \* the counters that have returned: a subset of {"text", "bytes"}
    c_text,          \* what count_lines_in_file returned (0 before it ran)
    c_bytes,         \* what count_lines_fast_bytes returned (0 before it ran)
    \* ---- SpecCollect
    t_pc,            \* "input" | "collected"
    t_variant,       \* "thread" | "baseline" | "turbo"
    t_root,          \* root_path = Path(directory_path).resolve(), as Path.parts
    t_tree,          \* the regular files below the root
    t_files,         \* files_to_process: the WorkItems collected
    \* ---- Spec
    pc,              \* where the main thread is
    variant,         \* the program run: "thread" | "turbo_threads" | "turbo_processes" | "baseline"
    root_kind,       \* what the path argument names: "dir" | "file" | "missing"
    max_workers,     \* max_workers as resolved (0: given as --threads 0 / --workers 0)
    fs,              \* the files below the root, by id
    files_to_process,\* the work list
    batches,         \* file_batches / batches
    fut,             \* each future's state: "unsubmitted" | "pending" | "running" | "finished"
    outcome,         \* each future's outcome: [ok, result]
    yielded,         \* the futures as_completed has yielded
    aggregate,       \* total_lines, extension_counts, file_counts
    next_file,       \* the baseline's position in its walk
    interrupted,     \* KeyboardInterrupt was raised in the main thread
    pending_at_interrupt, \* the batches queued and not started when it was raised
    exit_code,       \* the exit code of the process (once pc = "exited")
    ending,          \* how the process ended
    submit_count,    \* history: how often each batch was submitted
    start_count,     \* history: how often a worker started each batch
    merge_count,     \* history: how often each batch's result was merged
    out_of_order,    \* history: a batch was yielded after one submitted later
    merged_after_failure, \* history: a result was merged after a failed batch was yielded
    \* ---- SpecCompare
    q_root,          \* root_path = Path(directory_path).resolve(), as Path.parts
    q_tree,          \* the regular files below the root
    q_lines,         \* for each file, the count the Line Counter returns for it
    q_workers,       \* max_workers of the thread-pool run
    q_ran,           \* the programs that have returned: a subset of {"thread", "baseline"}
    q_thread,        \* the totals code_counter.py returned
    q_baseline,      \* the totals code_counter_benchmark.py returned
    \* ---- SpecBatch
    b_pc,            \* "input" | "done"
    b_variant,       \* "thread" | "turbo"
    b_disk,          \* for each path, what the disk holds: content, readable, stat_ok
    b_batch,         \* file_batch: the WorkItems of one batch
    b_result         \* the PartialResult the worker returned

partVars == <<p_pc, p_mode, p_items, p_workers, p_batch_size, p_batches>>
countVars == <<c_content, c_readable, c_ran, c_text, c_bytes>>

collectVars == <<t_pc, t_variant, t_root, t_tree, t_files>>

runVars == <<pc, variant, root_kind, max_workers, fs, files_to_process, batches,
             fut, outcome, yielded, aggregate, next_file, interrupted,
             pending_at_interrupt, exit_code, ending, submit_count, start_count,
             merge_count, out_of_order, merged_after_failure>>

compareVars == <<q_root, q_tree, q_lines, q_workers, q_ran, q_thread, q_baseline>>

batchVars == <<b_pc, b_variant, b_disk, b_batch, b_result>>

vars == <<partVars, countVars, collectVars, runVars, compareVars, batchVars>>

----------------------------------------------------------------------------
(* Bounds of the model.                                                    *)

\* longest work list handed to the partitioner in SpecPart
MaxItems == 25
\* largest worker count handed to the partitioner in SpecPart
MaxPartWorkers == 3
\* longest file content, in bytes, handed to the line counters in SpecCount
MaxLen == 4
\* the size from which count_lines_fast_bytes scans in chunks: 1024 in the
\* code (code_counter_turbo.py:30), scaled to the model's file sizes
SmallFileLimit == 3
\* largest buffer_size of the chunked scan: 64 * 1024 in the code
\* (code_counter_turbo.py:41), drawn from 1..MaxBufferSize in the model so
\* that lines straddle chunk boundaries at the model's file sizes
MaxBufferSize == 2
\* deepest nesting of directories below the root in SpecCollect
MaxDepth == 2
\* most files in a tree in SpecCollect
MaxTreeFiles == 1
\* most files a run collects in Spec
MaxFiles == 12
\* largest max_workers of a run in Spec
MaxWorkers == 2
\* most batches of a run in Spec
MaxBatches == 3
\* the most files of a tree whose two counts are compared
MaxCompareFiles == 3
\* the most workers of the thread pool in a comparison
MaxCompareWorkers == 3
\* the most files of a batch handed to one worker's call
MaxBatchFiles == 2

----------------------------------------------------------------------------
(* Python helpers.                                                         *)

Max(a, b) == IF a >= b THEN a ELSE b
Min(a, b) == IF a <= b THEN a ELSE b

\* s[i:j] of a Python list, 0 <= i <= j (0-based, j exclusive, clipped to len)
Slice(s, i, j) == SubSeq(s, i + 1, Min(j, Len(s)))

\* list(range(0, n, step)), step >= 1, as a sequence
Range0(n, step) ==
    LET count == (n + step - 1) \div step
    IN  [k \in 1..count |-> (k - 1) * step]

RECURSIVE Flatten(_)
Flatten(seqs) ==
    IF seqs = <<>> THEN <<>> ELSE Head(seqs) \o Flatten(Tail(seqs))

\* the sequences over S of length at most n
RECURSIVE SeqsUpTo(_, _)
SeqsUpTo(S, n) ==
    IF n = 0 THEN {<<>>}
    ELSE LET shorter == SeqsUpTo(S, n - 1)
         IN  shorter \cup {Append(s, x) : s \in {t \in shorter : Len(t) = n - 1}, x \in S}

----------------------------------------------------------------------------
(* Batch Partitioner.                                                      *)

\* code_counter.py: batch_size = max(1, len(files_to_process) // (max_workers * 4))
batch_size_thread(n, workers) == Max(1, n \div (workers * 4))

\* code_counter_turbo.py: max(10, n // (max_workers * 2)) for processes,
\* max(5, n // (max_workers * 4)) for threads
batch_size_turbo(n, workers, use_processes) ==
    IF use_processes
    THEN Max(10, n \div (workers * 2))
    ELSE Max(5, n \div (workers * 4))

batch_size_of(mode, n, workers) ==
    IF mode = "thread"
    THEN batch_size_thread(n, workers)
    ELSE batch_size_turbo(n, workers, mode = "turbo_processes")

\* a faulty variant of batch_slice: the slice ends one item early
batch_slice_short(items, i, batch_size) == Slice(items, i, i + batch_size - 1)

\* files_to_process[i:i + batch_size]
batch_slice(items, i, batch_size) == Slice(items, i, i + batch_size)

\* [files_to_process[i:i + batch_size] for i in range(0, len(files_to_process), batch_size)]
file_batches(items, batch_size) ==
    LET starts == Range0(Len(items), batch_size)
    IN  [k \in 1..Len(starts) |-> batch_slice(items, starts[k], batch_size)]

----------------------------------------------------------------------------
(* Line Counter.  A file content is a sequence of bytes (0..255); a        *)
(* decoded text is a sequence of code points.                              *)

LF == 10
CR == 13

\* the bytes SpecCount builds file contents from: LF, CR, space, "a", and
\* 0xC2 0xA0, the UTF-8 encoding of U+00A0 (NO-BREAK SPACE)
Bytes == {10, 13, 32, 97, 194, 160}

\* bytes.strip() with no argument strips ASCII whitespace: b' \t\n\r\x0b\x0c'
BytesWhitespace == {9, 10, 11, 12, 13, 32}

\* str.strip() with no argument strips the characters c with c.isspace();
\* those below U+0100 are listed (the others need three UTF-8 bytes)
StrWhitespace == {9, 10, 11, 12, 13, 28, 29, 30, 31, 32, 133, 160}

IsContinuation(b) == b >= 128 /\ b <= 191
IsLead2(b) == b >= 194 /\ b <= 223

\* bytes.decode('utf-8', errors='ignore') as open(..., encoding='utf-8',
\* errors='ignore') applies it: a well-formed sequence gives its code point,
\* a byte that starts no well-formed sequence is dropped
RECURSIVE decode_utf8_ignore(_)
decode_utf8_ignore(b) ==
    IF b = <<>> THEN <<>>
    ELSE IF Head(b) < 128 THEN <<Head(b)>> \o decode_utf8_ignore(Tail(b))
    ELSE IF IsLead2(Head(b)) /\ Len(b) >= 2 /\ IsContinuation(b[2])
         THEN <<(Head(b) - 192) * 64 + (b[2] - 128)>>
                  \o decode_utf8_ignore(Tail(Tail(b)))
    ELSE decode_utf8_ignore(Tail(b))

\* universal newlines (open() in text mode, newline=None): "\r\n" and a lone
\* "\r" are read as "\n"
RECURSIVE translate_newlines(_)
translate_newlines(t) ==
    IF t = <<>> THEN <<>>
    ELSE IF Head(t) = CR /\ Len(t) >= 2 /\ t[2] = LF
         THEN <<LF>> \o translate_newlines(Tail(Tail(t)))
    ELSE IF Head(t) = CR THEN <<LF>> \o translate_newlines(Tail(t))
    ELSE <<Head(t)>> \o translate_newlines(Tail(t))

\* "for line in f": the lines of a file object, each with its "\n" kept, the
\* last one without when the content does not end in "\n" (cur: the line
\* being read)
RECURSIVE file_lines_from(_, _)
file_lines_from(t, cur) ==
    IF t = <<>> THEN (IF cur = <<>> THEN <<>> ELSE <<cur>>)
    ELSE IF Head(t) = LF
         THEN <<Append(cur, LF)>> \o file_lines_from(Tail(t), <<>>)
    ELSE file_lines_from(Tail(t), Append(cur, Head(t)))

file_lines(t) == file_lines_from(t, <<>>)

\* s.split(sep) for a one-byte separator: always at least one segment
RECURSIVE split_from(_, _, _)
split_from(s, sep, cur) ==
    IF s = <<>> THEN <<cur>>
    ELSE IF Head(s) = sep THEN <<cur>> \o split_from(Tail(s), sep, <<>>)
    ELSE split_from(Tail(s), sep, Append(cur, Head(s)))

split(s, sep) == split_from(s, sep, <<>>)

RECURSIVE lstrip(_, _)
lstrip(s, ws) ==
    IF s # <<>> /\ Head(s) \in ws THEN lstrip(Tail(s), ws) ELSE s

RECURSIVE rstrip(_, _)
rstrip(s, ws) ==
    IF s # <<>> /\ s[Len(s)] \in ws THEN rstrip(SubSeq(s, 1, Len(s) - 1), ws) ELSE s

\* a faulty variant of strip: nothing is stripped
strip_nothing(s, ws) == s

\* s.strip()
strip(s, ws) == rstrip(lstrip(s, ws), ws)

\* sum(1 for line in lines if line.strip())
count_non_empty(lines, ws) ==
    Cardinality({k \in 1..Len(lines) : strip(lines[k], ws) # <<>>})

\* a faulty variant of count_lines_in_file: a failure to read is not caught
count_lines_in_file_unguarded(content, readable) ==
    count_non_empty(file_lines(translate_newlines(decode_utf8_ignore(content))),
                    StrWhitespace)

\* code_counter.py and code_counter_benchmark.py (the same text):
\* count_lines_in_file
count_lines_in_file(content, readable) ==
    IF ~readable THEN 0     \* except (IOError, OSError, UnicodeDecodeError)
    ELSE count_non_empty(
             file_lines(translate_newlines(decode_utf8_ignore(content))),
             StrWhitespace)

\* code_counter_turbo.py, file_size < 1024: content.split(b'\n')
count_lines_small(content) == count_non_empty(split(content, LF), BytesWhitespace)

\* code_counter_turbo.py, the mmap loop: pos, current_line and line_count
\* are the loop's variables
RECURSIVE chunk_loop(_, _, _, _, _)
chunk_loop(mm, file_size, buffer_size, pos, st) ==
    IF pos < file_size
    THEN LET chunk_size == Min(buffer_size, file_size - pos)
             chunk == Slice(mm, pos, pos + chunk_size)
             lines == split(st.current_line \o chunk, LF)
             complete == SubSeq(lines, 1, Len(lines) - 1)
         IN  chunk_loop(mm, file_size, buffer_size, pos + chunk_size,
                        [current_line |-> lines[Len(lines)],
                         line_count |-> st.line_count
                                          + count_non_empty(complete, BytesWhitespace)])
    ELSE st

\* a faulty variant of count_lines_chunked: the last segment of a chunk is
\* counted with the chunk instead of being carried over to the next chunk
RECURSIVE chunk_loop_no_carry(_, _, _, _)
chunk_loop_no_carry(mm, buffer_size, pos, line_count) ==
    IF pos < Len(mm)
    THEN LET chunk_size == Min(buffer_size, Len(mm) - pos)
         IN  chunk_loop_no_carry(mm, buffer_size, pos + chunk_size,
                 line_count + count_non_empty(
                                  split(Slice(mm, pos, pos + chunk_size), LF),
                                  BytesWhitespace))
    ELSE line_count

count_lines_chunked_no_carry(content, buffer_size) ==
    chunk_loop_no_carry(content, buffer_size, 0, 0)

count_lines_chunked(content, buffer_size) ==
    LET st == chunk_loop(content, Len(content), buffer_size, 0,
                         [current_line |-> <<>>, line_count |-> 0])
    IN  IF strip(st.current_line, BytesWhitespace) # <<>>
        THEN st.line_count + 1
        ELSE st.line_count

\* code_counter_turbo.py, mmap failed: sum(1 for line in f if line.strip())
\* over the binary file object
count_lines_fallback(content) == count_non_empty(file_lines(content), BytesWhitespace)

\* code_counter_turbo.py: count_lines_fast_bytes
count_lines_fast_bytes(content, readable, mmap_ok, buffer_size) ==
    IF ~readable THEN 0     \* except Exception
    ELSE IF Len(content) = 0 THEN 0
    ELSE IF Len(content) < SmallFileLimit THEN count_lines_small(content)
    ELSE IF mmap_ok THEN count_lines_chunked(content, buffer_size)
    ELSE count_lines_fallback(content)

CountIdle ==
    /\ c_content = <<>>
    /\ c_readable = TRUE
    /\ c_ran = {}
    /\ c_text = 0
    /\ c_bytes = 0

----------------------------------------------------------------------------
(* File Collector.  A name (of a directory or a file) is the sequence of   *)
(* its dot-separated segments: "a.py" is <<"a", "py">>, ".git" is          *)
(* <<"", "git">>, "build" is <<"build">>.  A file is [dirs, name]: the     *)
(* directory names from the scanned root (exclusive) down to the file, and *)
(* the file's name.  A tree is the set of its regular files; its           *)
(* directories are the prefixes of their dirs.                             *)

Plain(s) == <<s>>
Dot(s) == <<"", s>>

\* code_counter.py:121-125 and code_counter_benchmark.py:23-27 (the same set)
skip_dirs_thread ==
    {Dot("git"), Dot("vscode"), Plain("node_modules"), Plain("__pycache__"),
     Dot("pytest_cache"), Plain("venv"), Plain("env"), Plain("bin"),
     Plain("obj"), Plain("target"), Plain("build"), Plain("dist"),
     Dot("idea"), Dot("vs"), Plain("coverage"), Dot("nyc_output"), Plain("logs")}

\* code_counter_turbo.py:199-204
skip_dirs_turbo ==
    {Dot("git"), Dot("svn"), Dot("hg"), Dot("vscode"), Dot("idea"), Dot("vs"),
     Plain("node_modules"), Plain("__pycache__"), Dot("pytest_cache"),
     Plain("venv"), Plain("env"), Dot("env"), Plain("bin"), Plain("obj"),
     Plain("target"), Plain("build"), Plain("dist"), Plain("coverage"),
     Dot("nyc_output"), Plain("logs"), Plain("tmp"), Dot("cache"),
     Plain("vendor"), Plain("third_party"), Plain("external"), Dot("gradle")}

\* code_counter.py:113-118 and code_counter_benchmark.py:56-61 (the same set)
extensions_thread ==
    {".py", ".cs", ".js", ".ts", ".html", ".css", ".java", ".cpp", ".c",
     ".h", ".php", ".rb", ".go", ".rs", ".swift", ".kt", ".scala", ".sh",
     ".ps1", ".sql", ".xml", ".json", ".yaml", ".yml", ".jsx", ".tsx",
     ".vue", ".scss", ".sass", ".less", ".m", ".mm", ".r", ".pl", ".lua"}

\* code_counter_turbo.py:190-196
extensions_turbo ==
    {".py", ".cs", ".js", ".ts", ".html", ".css", ".java", ".cpp", ".c",
     ".h", ".hpp", ".cxx", ".cc", ".php", ".rb", ".go", ".rs", ".swift",
     ".kt", ".scala", ".sh", ".ps1", ".sql", ".xml", ".json", ".yaml",
     ".yml", ".jsx", ".tsx", ".vue", ".scss", ".sass", ".less", ".m",
     ".mm", ".r", ".pl", ".lua", ".dart", ".zig", ".nim", ".hx"}

\* str.lower() on the segments the model's names are built from
lower(seg) ==
    CASE seg = "PY" -> "py"
      [] seg = "HPP" -> "hpp"
      [] OTHER -> seg

\* "." + seg on the (lower-cased) segments the model's names are built from
dotted(seg) ==
    CASE seg = "py" -> ".py"
      [] seg = "hpp" -> ".hpp"
      [] seg = "txt" -> ".txt"
      [] seg = "js" -> ".js"
      [] seg = "" -> "."
      [] seg = "PY" -> ".PY"
      [] seg = "HPP" -> ".HPP"
      [] OTHER -> ".?"

\* pathlib's PurePath.suffix: name[i:] for i = name.rfind('.') when
\* 0 < i < len(name) - 1, else ''
suffix(name) ==
    LET n == Len(name)
    IN  IF n >= 2 /\ name[n] # "" /\ (n >= 3 \/ name[1] # "")
        THEN dotted(name[n])
        ELSE ""

\* str.lower() on a suffix
lower_suffix(name) ==
    LET n == Len(name)
    IN  IF suffix(name) = "" THEN "" ELSE dotted(lower(name[n]))

\* code_counter.py: get_file_extension
get_file_extension(file) == lower_suffix(file.name)

\* Path.parts of the resolved path of a file under the root
parts(root_parts, file) == root_parts \o file.dirs \o <<file.name>>

\* a faulty variant of should_skip_path: nothing is skipped
should_skip_path_never(path_parts, skip_dirs) == FALSE

\* code_counter.py: should_skip_path
should_skip_path(path_parts, skip_dirs) ==
    \E k \in 1..Len(path_parts) : path_parts[k] \in skip_dirs

\* the directories of a tree, as paths below the root
dirs_of(tree) ==
    UNION {{SubSeq(f.dirs, 1, k) : k \in 1..Len(f.dirs)} : f \in tree}

\* root_path.rglob('*'): every directory and every file below the root, as
\* [dirs, name] (a directory's last component is its name)
rglob(tree) ==
    tree \cup {[dirs |-> SubSeq(d, 1, Len(d) - 1), name |-> d[Len(d)]] : d \in dirs_of(tree)}

\* Path.is_file()
is_file(tree, p) == p \in tree

\* a faulty variant of collect_files_to_process: the extension is not looked at
collect_files_any_extension(root_parts, tree, extensions, skip_dirs) ==
    {[path |-> p, ext |-> get_file_extension(p)] :
        p \in {q \in rglob(tree) :
                 /\ is_file(tree, q)
                 /\ ~should_skip_path(parts(root_parts, q), skip_dirs)}}

\* code_counter.py: collect_files_to_process (the list as a set: rglob's
\* order is the file system's)
collect_files_to_process(root_parts, tree, extensions, skip_dirs) ==
    {[path |-> p, ext |-> get_file_extension(p)] :
        p \in {q \in rglob(tree) :
                 /\ is_file(tree, q)
                 /\ ~should_skip_path(parts(root_parts, q), skip_dirs)
                 /\ get_file_extension(q) \in extensions}}

\* code_counter_benchmark.py: should_skip_directory
should_skip_directory(dir_name) == dir_name \in skip_dirs_thread

\* Path.parents of the resolved path of a file, by name: the directories
\* below the root, the root and the root's ancestors
parent_names(root_parts, file) == root_parts \o file.dirs

\* code_counter_benchmark.py:83-100: the files the baseline's walk counts
baseline_walk(root_parts, tree) ==
    {[path |-> p, ext |-> get_file_extension(p)] :
        p \in {q \in rglob(tree) :
                 /\ is_file(tree, q)
                 /\ ~\E k \in 1..Len(parent_names(root_parts, q)) :
                        should_skip_directory(parent_names(root_parts, q)[k])
                 /\ ~(q.dirs # <<>> /\ should_skip_directory(q.dirs[Len(q.dirs)]))
                 /\ get_file_extension(q) \in extensions_thread}}

\* code_counter_turbo.py:148-166: the files of one directory that pass the
\* extension and size checks (unstatable: the files whose stat() raises or
\* whose size exceeds 100 MB)
turbo_files_in(tree, dir, extensions, unstatable) ==
    {[path |-> f, ext |-> dotted(lower(f.name[Len(f.name)]))] :
        f \in {g \in tree :
                 /\ g.dirs = dir
                 /\ Len(g.name) >= 2                   \* '.' in filename
                 /\ dotted(lower(g.name[Len(g.name)])) \in extensions
                 /\ g \notin unstatable}}

\* the subdirectories of dir, by name
subdirs(tree, dir) ==
    {d[Len(dir) + 1] : d \in {e \in dirs_of(tree) :
                                 Len(e) > Len(dir) /\ SubSeq(e, 1, Len(dir)) = dir}}

\* code_counter_turbo.py:142-166: os.walk from dir, the denylisted
\* subdirectories pruned (fuel: the depth left, MaxDepth at the root)
RECURSIVE walk_turbo(_, _, _, _, _, _)
walk_turbo(tree, dir, extensions, skip_dirs, unstatable, fuel) ==
    turbo_files_in(tree, dir, extensions, unstatable)
    \cup (IF fuel = 0 THEN {}
          ELSE UNION {walk_turbo(tree, Append(dir, d), extensions, skip_dirs,
                                 unstatable, fuel - 1) :
                         d \in {e \in subdirs(tree, dir) : e \notin skip_dirs}})

\* code_counter_turbo.py: collect_files_turbo
collect_files_turbo(tree, extensions, skip_dirs, unstatable) ==
    walk_turbo(tree, <<>>, extensions, skip_dirs, unstatable, MaxDepth)

CollectIdle ==
    /\ t_pc = "idle"
    /\ t_variant = "thread"
    /\ t_root = <<>>
    /\ t_tree = {}
    /\ t_files = {}

----------------------------------------------------------------------------
(* One run: main, count_lines_in_directory / count_lines_turbo, the pool.  *)
(* A WorkItem is [id, ext]: id names the file (its path), ext is its       *)
(* lower-cased extension.  fs[id] is what the file system holds for it:    *)
(* lines, the count the Line Counter returns for the file (0 for an empty, *)
(* blank or unreadable file), and turbo_skips, TRUE when                   *)
(* process_file_batch_turbo passes over the file before counting (size 0,  *)
(* size over 50 MB, a binary sample, stat() raising).                      *)

Variants == {"thread", "turbo_threads", "turbo_processes", "baseline"}
PoolVariants == Variants \ {"baseline"}
RootKinds == {"dir", "file", "missing"}

\* the extensions of the files a run collects
RunExts == <<".py", ".js">>

\* the kinds of file a run meets
FileKinds ==
    << [lines |-> 0, turbo_skips |-> FALSE],
       [lines |-> 1, turbo_skips |-> FALSE],
       [lines |-> 2, turbo_skips |-> FALSE],
       [lines |-> 2, turbo_skips |-> TRUE] >>

\* the file system of a run: file i of n has kind offset + i * stride
\* (cyclically) and the extensions alternate
FileSystem(n, offset, stride) ==
    [i \in 1..n |-> FileKinds[((offset + i * stride) % Len(FileKinds)) + 1]]

WorkList(n, offset) ==
    [i \in 1..n |-> [id |-> i, ext |-> RunExts[((offset + i) % Len(RunExts)) + 1]]]

\* defaultdict(int)()
EmptyCounts == [e \in {} |-> 0]

\* d[e] read through a defaultdict(int) / a dict known to hold e
Get(d, e) == IF e \in DOMAIN d THEN d[e] ELSE 0

\* d[e] += n on a defaultdict(int)
add_count(d, e, n) ==
    [x \in DOMAIN d \cup {e} |-> Get(d, x) + (IF x = e THEN n ELSE 0)]

EmptyResult ==
    [batch_lines |-> 0, batch_extension_counts |-> EmptyCounts,
     batch_file_counts |-> EmptyCounts]

\* a faulty variant of count_into: a file without lines is counted too
count_into_every_file(acc, extension, line_count) ==
    [batch_lines |-> acc.batch_lines + line_count,
     batch_extension_counts |->
         add_count(acc.batch_extension_counts, extension, line_count),
     batch_file_counts |-> add_count(acc.batch_file_counts, extension, 1)]

\* the body of the loop of process_file_batch for a file of line_count lines
count_into(acc, extension, line_count) ==
    IF line_count > 0
    THEN [batch_lines |-> acc.batch_lines + line_count,
          batch_extension_counts |->
              add_count(acc.batch_extension_counts, extension, line_count),
          batch_file_counts |-> add_count(acc.batch_file_counts, extension, 1)]
    ELSE acc

\* code_counter.py: process_file_batch
RECURSIVE process_file_batch_from(_, _, _)
process_file_batch_from(file_batch, files, acc) ==
    IF file_batch = <<>> THEN acc
    ELSE LET item == Head(file_batch)
         IN  process_file_batch_from(Tail(file_batch), files,
                                     count_into(acc, item.ext, files[item.id].lines))

process_file_batch(file_batch, files) == process_file_batch_from(file_batch, files, EmptyResult)

\* code_counter_turbo.py: process_file_batch_turbo
RECURSIVE process_file_batch_turbo_from(_, _, _)
process_file_batch_turbo_from(file_batch, files, acc) ==
    IF file_batch = <<>> THEN acc
    ELSE LET item == Head(file_batch)
         IN  process_file_batch_turbo_from(Tail(file_batch), files,
                 IF files[item.id].turbo_skips
                 THEN acc                                   \* continue
                 ELSE count_into(acc, item.ext, files[item.id].lines))

process_file_batch_turbo(file_batch, files) ==
    process_file_batch_turbo_from(file_batch, files, EmptyResult)

worker_fn(variant_, file_batch, files) ==
    IF variant_ = "thread"
    THEN process_file_batch(file_batch, files)
    ELSE process_file_batch_turbo(file_batch, files)

\* a faulty variant of merge_total: the total is overwritten, not added to
merge_total_overwrite(total, batch_lines) == batch_lines

\* total_lines += batch_lines
merge_total(total, batch_lines) == total + batch_lines

\* a faulty variant of merge_counts: a count is overwritten, not added to
merge_counts_overwrite(acc, d) ==
    [x \in DOMAIN acc \cup DOMAIN d |-> IF x \in DOMAIN d THEN d[x] ELSE acc[x]]

\* for ext, count in d.items(): acc[ext] += count
merge_counts(acc, d) ==
    [x \in DOMAIN acc \cup DOMAIN d |-> Get(acc, x) + Get(d, x)]

\* the aggregate: total_lines, extension_counts, file_counts
ZeroAggregate ==
    [total_lines |-> 0, extension_counts |-> EmptyCounts, file_counts |-> EmptyCounts]

\* a faulty variant of merge_result: the PartialResult is merged twice
merge_result_twice(agg, r) ==
    [total_lines |-> merge_total(merge_total(agg.total_lines, r.batch_lines), r.batch_lines),
     extension_counts |-> merge_counts(merge_counts(agg.extension_counts,
                                                    r.batch_extension_counts),
                                       r.batch_extension_counts),
     file_counts |-> merge_counts(merge_counts(agg.file_counts, r.batch_file_counts),
                                  r.batch_file_counts)]

\* the three merge statements of the as_completed loop
merge_result(agg, r) ==
    [total_lines |-> merge_total(agg.total_lines, r.batch_lines),
     extension_counts |-> merge_counts(agg.extension_counts, r.batch_extension_counts),
     file_counts |-> merge_counts(agg.file_counts, r.batch_file_counts)]

\* a faulty variant of collect_result: a failed batch resets the aggregate
collect_result_reset(agg, res) ==
    IF res.ok THEN merge_result(agg, res.result) ELSE ZeroAggregate

\* the body of the as_completed loop: future.result() returns the batch's
\* PartialResult, which is merged, or raises the worker's exception, which
\* the except clause reports
collect_result(agg, res) ==
    IF res.ok THEN merge_result(agg, res.result) ELSE agg

\* a faulty variant of exit_code_on_interrupt: the shell's code for SIGINT
exit_code_on_interrupt_130(variant_) == 130

\* __main__: except KeyboardInterrupt: ... sys.exit(1)
exit_code_on_interrupt(variant_) == 1

\* __main__: except Exception as e: ... sys.exit(1)
exit_code_on_error(variant_) == 1

\* __main__: main() returned
exit_code_on_return(variant_) == 0

NoOutcome == [ok |-> FALSE, result |-> EmptyResult]

RunIdle ==
    /\ pc = "idle"
    /\ variant = "thread"
    /\ root_kind = "dir"
    /\ max_workers = 1
    /\ fs = <<>>
    /\ files_to_process = <<>>
    /\ batches = <<>>
    /\ fut = <<>>
    /\ outcome = <<>>
    /\ yielded = {}
    /\ aggregate = ZeroAggregate
    /\ next_file = 0
    /\ interrupted = FALSE
    /\ pending_at_interrupt = {}
    /\ exit_code = 0
    /\ ending = "none"
    /\ submit_count = <<>>
    /\ start_count = <<>>
    /\ merge_count = <<>>
    /\ out_of_order = FALSE
    /\ merged_after_failure = FALSE

CompareIdle ==
    /\ q_root = <<>>
    /\ q_tree = {}
    /\ q_lines = <<>>
    /\ q_workers = 1
    /\ q_ran = {}
    /\ q_thread = ZeroAggregate
    /\ q_baseline = ZeroAggregate

BatchIdle ==
    /\ b_pc = "idle"
    /\ b_variant = "thread"
    /\ b_disk = <<>>
    /\ b_batch = <<>>
    /\ b_result = EmptyResult

----------------------------------------------------------------------------
(* SpecPart: the partitioner applied to every work list of 0..MaxItems     *)
(* items and every worker count 1..MaxPartWorkers, in each mode.           *)

PartModes == {"thread", "turbo_processes", "turbo_threads"}

PartIdle ==
    /\ p_pc = "idle"
    /\ p_mode = "thread"
    /\ p_items = <<>>
    /\ p_workers = 1
    /\ p_batch_size = 0
    /\ p_batches = <<>>

InitPart ==
    /\ p_pc = "input"
    /\ p_mode \in PartModes
    /\ \E n \in 0..MaxItems : p_items = [i \in 1..n |-> i]
    /\ p_workers \in 1..MaxPartWorkers
    /\ p_batch_size = 0
    /\ p_batches = <<>>
    /\ CountIdle
    /\ CollectIdle
    /\ RunIdle
    /\ CompareIdle
    /\ BatchIdle

PartitionThread ==
    /\ p_pc = "input"
    /\ p_mode = "thread"
    /\ p_batch_size' = batch_size_thread(Len(p_items), p_workers)
    /\ p_batches' = file_batches(p_items, p_batch_size')
    /\ p_pc' = "done"
    /\ UNCHANGED <<p_mode, p_items, p_workers>>
    /\ UNCHANGED <<countVars, collectVars, runVars, compareVars, batchVars>>

PartitionTurbo ==
    /\ p_pc = "input"
    /\ p_mode # "thread"
    /\ p_batch_size' = batch_size_turbo(Len(p_items), p_workers, p_mode = "turbo_processes")
    /\ p_batches' = file_batches(p_items, p_batch_size')
    /\ p_pc' = "done"
    /\ UNCHANGED <<p_mode, p_items, p_workers>>
    /\ UNCHANGED <<countVars, collectVars, runVars, compareVars, batchVars>>

NextPart == PartitionThread \/ PartitionTurbo

SpecPart == InitPart /\ [][NextPart]_vars

----------------------------------------------------------------------------
(* Claims on the partitioner.                                              *)

\* the number of batches an item (by value; items are distinct) lies in
BatchesHolding(bb, x) ==
    Cardinality({k \in 1..Len(bb) :
                    \E j \in 1..Len(bb[k]) : bb[k][j] = x})

\* C1: for every work list of n >= 0 items and every worker count w >= 1,
\* in the thread variant and in both turbo modes, the batch size is >= 1,
\* no batch is empty, every item lies in exactly one batch, and the batches
\* concatenated in order are the input list.
C1_PartitionCovers ==
    p_pc = "done" =>
        /\ p_batch_size >= 1
        /\ \A k \in 1..Len(p_batches) : Len(p_batches[k]) >= 1
        /\ \A k \in 1..Len(p_batches) : Len(p_batches[k]) <= p_batch_size
        /\ Flatten(p_batches) = p_items
        /\ \A i \in 1..Len(p_items) : BatchesHolding(p_batches, p_items[i]) = 1

\* a partition of a list into several batches, the last one ragged
C1_Witness ==
    /\ p_pc = "done"
    /\ Len(p_batches) >= 3
    /\ Len(p_batches[Len(p_batches)]) < p_batch_size
    /\ p_batch_size >= 2

\* C14: the partitioner targets several batches per worker: for every worker
\* count w >= 1 and every item count n >= 2*w, the number of batches is at
\* least 2*w, in the thread variant and in both turbo modes.
C14_SeveralBatchesPerWorker ==
    (p_pc = "done" /\ Len(p_items) >= 2 * p_workers) =>
        Len(p_batches) >= 2 * p_workers

----------------------------------------------------------------------------
(* SpecCount: both line counters applied to every file content of at most  *)
(* MaxLen bytes over Bytes.                                                *)

InitCount ==
    /\ c_content \in SeqsUpTo(Bytes, MaxLen)
    /\ c_readable \in BOOLEAN
    /\ c_ran = {}
    /\ c_text = 0
    /\ c_bytes = 0
    /\ PartIdle
    /\ CollectIdle
    /\ RunIdle
    /\ CompareIdle
    /\ BatchIdle

CountText ==
    /\ "text" \notin c_ran
    /\ c_ran' = c_ran \cup {"text"}
    /\ c_text' = count_lines_in_file(c_content, c_readable)
    /\ UNCHANGED <<c_content, c_readable, c_bytes>>
    /\ UNCHANGED <<partVars, collectVars, runVars, compareVars, batchVars>>

CountBytes ==
    /\ "bytes" \notin c_ran
    /\ c_ran' = c_ran \cup {"bytes"}
    /\ \E mmap_ok \in BOOLEAN, buffer_size \in 1..MaxBufferSize :
          c_bytes' = count_lines_fast_bytes(c_content, c_readable, mmap_ok, buffer_size)
    /\ UNCHANGED <<c_content, c_readable, c_text>>
    /\ UNCHANGED <<partVars, collectVars, runVars, compareVars, batchVars>>

NextCount == CountText \/ CountBytes

SpecCount == InitCount /\ [][NextCount]_vars

----------------------------------------------------------------------------
(* Claims on the line counter.                                             *)

\* The lines of s that hold a character outside ws, counted by the position
\* of the first such character of each: position i counts when s[i] is
\* neither whitespace nor a terminator and every earlier character of the
\* same line (no terminator between it and i) is whitespace.
NonBlankLines(s, terminators, ws) ==
    Cardinality({i \in 1..Len(s) :
        /\ s[i] \notin ws \cup terminators
        /\ \A j \in 1..(i - 1) :
              (\A k \in j..(i - 1) : s[k] \notin terminators) => s[j] \in ws})

\* the content without its trailing "\n", when it has one
WithoutTrailingLF(b) ==
    IF b # <<>> /\ b[Len(b)] = LF THEN SubSeq(b, 1, Len(b) - 1) ELSE b

\* the line boundaries of a text-mode file (universal newlines) and of the
\* byte-level scan
TextTerminators == {LF, CR}
ByteTerminators == {LF}

\* C5: for every readable file content, count_lines_in_file and
\* count_lines_fast_bytes return the number of lines that hold a
\* non-whitespace character (lines as each counter bounds them: universal
\* newlines in text mode, "\n" in the byte scan), and the content with its
\* trailing "\n" removed has the same count.
C5_CountsNonBlankLines ==
    /\ ("text" \in c_ran /\ c_readable) =>
          /\ c_text = NonBlankLines(decode_utf8_ignore(c_content),
                                    TextTerminators, StrWhitespace)
          /\ c_text = NonBlankLines(decode_utf8_ignore(WithoutTrailingLF(c_content)),
                                    TextTerminators, StrWhitespace)
    /\ ("bytes" \in c_ran /\ c_readable) =>
          /\ c_bytes = NonBlankLines(c_content, ByteTerminators, BytesWhitespace)
          /\ c_bytes = NonBlankLines(WithoutTrailingLF(c_content),
                                     ByteTerminators, BytesWhitespace)

\* "a\n \n": a whitespace-only line and a trailing terminator, scanned in
\* chunks by the byte-level counter; one line counted by both
C5_Witness ==
    /\ c_content = <<97, 10, 32, 10>>
    /\ Len(c_content) >= SmallFileLimit
    /\ c_readable
    /\ c_ran = {"text", "bytes"}
    /\ c_text = 1
    /\ c_bytes = 1

\* every byte of b belongs to a well-formed UTF-8 sequence
WellFormedUtf8(b) ==
    \A i \in 1..Len(b) :
        \/ b[i] < 128
        \/ IsLead2(b[i]) /\ i < Len(b) /\ IsContinuation(b[i + 1])
        \/ IsContinuation(b[i]) /\ i > 1 /\ IsLead2(b[i - 1])

\* C6: for every well-formed UTF-8 file content, with carriage-return-only
\* line endings and lines of non-ASCII whitespace among them, the byte-level
\* counter and the text-mode counter return the same count.
C6_ByteCountEqualsTextCount ==
    (c_ran = {"text", "bytes"} /\ c_readable /\ WellFormedUtf8(c_content))
        => c_bytes = c_text

\* C15: in count_lines_fast_bytes, for a file of at least the small-file
\* limit the chunked scan returns the count that splitting the whole content
\* on \n at once returns, for every content and every chunk size >= 1: a
\* line that straddles chunk boundaries is counted once and a terminator at
\* a chunk boundary adds no line.
C15_ChunkedEqualsWholeSplit ==
    (c_readable /\ Len(c_content) >= SmallFileLimit) =>
        /\ \A buffer_size \in 1..MaxBufferSize :
              count_lines_chunked(c_content, buffer_size) = count_lines_small(c_content)
        /\ "bytes" \in c_ran => c_bytes = count_lines_small(c_content)

\* count_lines_fast_bytes has returned 2 for a file over the small-file
\* limit whose second line straddles a chunk boundary of every chunk size,
\* its first terminator lying at the end of a chunk of 2 bytes
C15_Witness ==
    /\ "bytes" \in c_ran
    /\ c_readable
    /\ c_content = <<97, LF, 97, 97>>
    /\ Len(c_content) >= SmallFileLimit
    /\ c_bytes = 2

----------------------------------------------------------------------------
(* SpecCollect: each variant's collector applied to every tree of at most  *)
(* MaxTreeFiles files, at most MaxDepth directories deep, under each root. *)

DirNames == {Plain("src"), Plain("build"), Plain("tmp")}
FileNames == {<<"a", "py">>, <<"a", "PY">>, <<"", "py">>, <<"a", "txt">>}

\* the resolved root_path, as Path.parts
Roots ==
    {<<Plain("/"), Plain("home"), Plain("proj")>>,
     <<Plain("/"), Plain("build"), Plain("proj")>>,
     <<Plain("/"), Plain("home"), Plain("build")>>}

AllFiles == [dirs : SeqsUpTo(DirNames, MaxDepth), name : FileNames]

RECURSIVE SubsetsUpTo(_, _)
SubsetsUpTo(S, n) ==
    IF n = 0 THEN {{}}
    ELSE LET smaller == SubsetsUpTo(S, n - 1)
         IN  smaller \cup {T \cup {x} : T \in smaller, x \in S}

CollectVariants == {"thread", "baseline", "turbo"}

InitCollect ==
    /\ t_pc = "input"
    /\ t_variant \in CollectVariants
    /\ t_root \in Roots
    /\ t_tree \in SubsetsUpTo(AllFiles, MaxTreeFiles)
    /\ t_files = {}
    /\ PartIdle
    /\ CountIdle
    /\ RunIdle
    /\ CompareIdle
    /\ BatchIdle

CollectThread ==
    /\ t_pc = "input"
    /\ t_variant = "thread"
    /\ t_files' = collect_files_to_process(t_root, t_tree, extensions_thread, skip_dirs_thread)
    /\ t_pc' = "collected"
    /\ UNCHANGED <<t_variant, t_root, t_tree>>
    /\ UNCHANGED <<partVars, countVars, runVars, compareVars, batchVars>>

CollectBaseline ==
    /\ t_pc = "input"
    /\ t_variant = "baseline"
    /\ t_files' = baseline_walk(t_root, t_tree)
    /\ t_pc' = "collected"
    /\ UNCHANGED <<t_variant, t_root, t_tree>>
    /\ UNCHANGED <<partVars, countVars, runVars, compareVars, batchVars>>

CollectTurbo ==
    /\ t_pc = "input"
    /\ t_variant = "turbo"
    /\ \E unstatable \in SubsetsUpTo(t_tree, 1) :
          t_files' = collect_files_turbo(t_tree, extensions_turbo, skip_dirs_turbo, unstatable)
    /\ t_pc' = "collected"
    /\ UNCHANGED <<t_variant, t_root, t_tree>>
    /\ UNCHANGED <<partVars, countVars, runVars, compareVars, batchVars>>

NextCollect == CollectThread \/ CollectBaseline \/ CollectTurbo

SpecCollect == InitCollect /\ [][NextCollect]_vars

----------------------------------------------------------------------------
(* Claims on the collector.                                                *)

DenylistOf(v) == IF v = "turbo" THEN skip_dirs_turbo ELSE skip_dirs_thread
AllowListOf(v) == IF v = "turbo" THEN extensions_turbo ELSE extensions_thread

\* the file lies under a directory (below the root, at any depth) whose
\* name is in the denylist
UnderDenylisted(file, denylist) ==
    \E k \in 1..Len(file.dirs) : file.dirs[k] \in denylist

\* the file's name has a last dot-segment, and lower-cased it is in the
\* allow-list
ExtensionAllowed(file, allowlist) ==
    /\ Len(file.name) >= 2
    /\ dotted(lower(file.name[Len(file.name)])) \in allowlist

\* C7: for every directory tree, no collected file lies under a denylisted
\* directory at any depth below the root, none has a lower-cased extension
\* outside the allow-list, and every collected WorkItem is a file of the
\* tree that carries its lower-cased extension, a member of the allow-list.
C7_CollectedAreAllowed ==
    t_pc = "collected" =>
        \A item \in t_files :
            /\ item.path \in t_tree
            /\ ~UnderDenylisted(item.path, DenylistOf(t_variant))
            /\ ExtensionAllowed(item.path, AllowListOf(t_variant))
            /\ item.ext \in AllowListOf(t_variant)
            /\ item.ext = dotted(lower(item.path.name[Len(item.path.name)]))

\* a tree holding a recognised file two levels below a denylisted directory
\* has been collected, and the file is not in the work list
C7_Witness ==
    /\ t_pc = "collected"
    /\ \E f \in t_tree :
          /\ Len(f.dirs) >= 2
          /\ f.dirs[1] \in DenylistOf(t_variant)
          /\ f.dirs[2] \notin DenylistOf(t_variant)
          /\ ExtensionAllowed(f, AllowListOf(t_variant))
          /\ \A item \in t_files : item.path # f

\* the extension the variant's collector computes for a file
ExtensionOf(v, file) ==
    IF v = "turbo"
    THEN (IF Len(file.name) >= 2 THEN dotted(lower(file.name[Len(file.name)])) ELSE "")
    ELSE get_file_extension(file)

\* C17: whether a file is collected depends only on the path below the
\* scanned root: every regular file whose extension is in the allow-list and
\* whose directories between the root (exclusive) and the file hold no
\* denylisted name is collected, whatever the names of the root directory
\* and of its ancestors, by each of the three collectors.
C17_CollectionIgnoresRootName ==
    t_pc = "collected" =>
        \A f \in t_tree :
            (/\ ExtensionOf(t_variant, f) \in AllowListOf(t_variant)
             /\ ~UnderDenylisted(f, DenylistOf(t_variant)))
                => \E item \in t_files : item.path = f

----------------------------------------------------------------------------
(* Spec: one run of one of the three programs, from main() to the exit of  *)
(* the process.                                                            *)

BatchIds == 1..Len(batches)

\* the partition of n files for max_workers workers holds at most MaxBatches
\* batches
FewBatches(variant_, n, workers) ==
    LET size == batch_size_of(IF variant_ = "thread" THEN "thread" ELSE variant_, n, workers)
    IN  (n + size - 1) \div size <= MaxBatches

Init ==
    /\ pc = "main"
    /\ variant \in Variants
    /\ root_kind \in RootKinds
    /\ max_workers \in (IF variant = "baseline" THEN {1} ELSE 0..MaxWorkers)
    /\ fs = <<>>
    /\ files_to_process = <<>>
    /\ batches = <<>>
    /\ fut = <<>>
    /\ outcome = <<>>
    /\ yielded = {}
    /\ aggregate = ZeroAggregate
    /\ next_file = 0
    /\ interrupted = FALSE
    /\ pending_at_interrupt = {}
    /\ exit_code = 0
    /\ ending = "none"
    /\ submit_count = <<>>
    /\ start_count = <<>>
    /\ merge_count = <<>>
    /\ out_of_order = FALSE
    /\ merged_after_failure = FALSE
    /\ PartIdle
    /\ CountIdle
    /\ CollectIdle
    /\ CompareIdle
    /\ BatchIdle

poolVars == <<batches, fut, outcome, yielded, submit_count, start_count,
              merge_count, out_of_order, merged_after_failure>>
argVars == <<variant, root_kind, max_workers>>
otherVars == <<partVars, countVars, collectVars, compareVars, batchVars>>

\* count_lines_in_directory / count_lines_turbo: the path does not exist or
\* is not a directory; the five Nones are returned
InvalidRoot ==
    /\ pc = "main"
    /\ root_kind # "dir"
    /\ pc' = "returned_none"
    /\ UNCHANGED <<argVars, fs, files_to_process, poolVars, aggregate, next_file,
                   interrupted, pending_at_interrupt, exit_code, ending, otherVars>>

\* the collector returns the work list (the baseline meets the same files
\* in its own walk); an empty list returns zeros at once
Collect ==
    /\ pc = "main"
    /\ root_kind = "dir"
    /\ \E n \in 0..MaxFiles, offset \in 0..(Len(FileKinds) - 1), stride \in 0..1 :
          /\ variant \in PoolVariants /\ max_workers >= 1
                => FewBatches(variant, n, max_workers)
          /\ fs' = FileSystem(n, offset, stride)
          /\ files_to_process' = WorkList(n, offset)
          /\ pc' = IF n = 0 THEN "returned"
                   ELSE IF variant = "baseline" THEN "walking"
                   ELSE "partition"
    /\ next_file' = 1
    /\ UNCHANGED <<argVars, poolVars, aggregate, interrupted, pending_at_interrupt,
                   exit_code, ending, otherVars>>

\* batch_size = max(.., len(files_to_process) // (max_workers * k)) with
\* max_workers = 0 (--threads 0, --workers 0): ZeroDivisionError
PartitionRaises ==
    /\ pc = "partition"
    /\ max_workers = 0
    /\ pc' = "raised"
    /\ UNCHANGED <<argVars, fs, files_to_process, poolVars, aggregate, next_file,
                   interrupted, pending_at_interrupt, exit_code, ending, otherVars>>

\* the batches are built and the executor is created
Partition ==
    /\ pc = "partition"
    /\ max_workers >= 1
    /\ batches' = file_batches(files_to_process,
                               batch_size_of(variant, Len(files_to_process), max_workers))
    /\ fut' = [b \in 1..Len(batches') |-> "unsubmitted"]
    /\ outcome' = [b \in 1..Len(batches') |-> NoOutcome]
    /\ submit_count' = [b \in 1..Len(batches') |-> 0]
    /\ start_count' = [b \in 1..Len(batches') |-> 0]
    /\ merge_count' = [b \in 1..Len(batches') |-> 0]
    /\ pc' = "submit"
    /\ UNCHANGED <<argVars, fs, files_to_process, yielded, out_of_order,
                   merged_after_failure, aggregate, next_file, interrupted,
                   pending_at_interrupt, exit_code, ending, otherVars>>

\* one step of {executor.submit(process_file_batch, batch): batch for batch
\* in file_batches}
Submit ==
    /\ pc = "submit"
    /\ LET b == CHOOSE x \in BatchIds :
                   fut[x] = "unsubmitted" /\ \A y \in 1..(x - 1) : fut[y] # "unsubmitted"
       IN  /\ fut' = [fut EXCEPT ![b] = "pending"]
           /\ submit_count' = [submit_count EXCEPT ![b] = @ + 1]
           /\ pc' = IF b = Len(batches) THEN "collecting" ELSE "submit"
    /\ UNCHANGED <<argVars, fs, files_to_process, batches, outcome, yielded,
                   start_count, merge_count, out_of_order, merged_after_failure,
                   aggregate, next_file, interrupted, pending_at_interrupt,
                   exit_code, ending, otherVars>>

\* the batches the workers of the pool are running
Running == {b \in BatchIds : fut[b] = "running"}

\* a worker of the pool is idle (at most max_workers batches run at a time)
\* and takes the oldest queued batch
WorkerStart ==
    /\ pc \in {"submit", "collecting", "shutdown"}
    /\ Cardinality(Running) < max_workers
    /\ \E b \in BatchIds :
          /\ fut[b] = "pending"
          /\ \A y \in 1..(b - 1) : fut[y] # "pending"
          /\ fut' = [fut EXCEPT ![b] = "running"]
          /\ start_count' = [start_count EXCEPT ![b] = @ + 1]
    /\ UNCHANGED <<pc, argVars, fs, files_to_process, batches, outcome, yielded,
                   submit_count, merge_count, out_of_order, merged_after_failure,
                   aggregate, next_file, interrupted, pending_at_interrupt,
                   exit_code, ending, otherVars>>

\* a worker's call returns the batch's PartialResult
WorkerReturns ==
    /\ \E b \in Running :
          /\ outcome' = [outcome EXCEPT
                            ![b] = [ok |-> TRUE,
                                    result |-> worker_fn(variant, batches[b], fs)]]
          /\ fut' = [fut EXCEPT ![b] = "finished"]
    /\ UNCHANGED <<pc, argVars, fs, files_to_process, batches, yielded, submit_count,
                   start_count, merge_count, out_of_order, merged_after_failure,
                   aggregate, next_file, interrupted, pending_at_interrupt,
                   exit_code, ending, otherVars>>

\* a worker's call raises an exception, which the future keeps
WorkerRaises ==
    /\ \E b \in Running :
          /\ outcome' = [outcome EXCEPT ![b] = NoOutcome]
          /\ fut' = [fut EXCEPT ![b] = "finished"]
    /\ UNCHANGED <<pc, argVars, fs, files_to_process, batches, yielded, submit_count,
                   start_count, merge_count, out_of_order, merged_after_failure,
                   aggregate, next_file, interrupted, pending_at_interrupt,
                   exit_code, ending, otherVars>>

\* one iteration of "for future in as_completed(future_to_batch)": a
\* finished future not yet yielded is yielded and its result collected
Merge ==
    /\ pc = "collecting"
    /\ \E b \in BatchIds :
          /\ fut[b] = "finished"
          /\ b \notin yielded
          /\ yielded' = yielded \cup {b}
          /\ out_of_order' = (out_of_order \/ \E y \in yielded : y > b)
          /\ merged_after_failure' =
                (merged_after_failure
                    \/ (outcome[b].ok /\ \E y \in yielded : ~outcome[y].ok))
          /\ aggregate' = collect_result(aggregate, outcome[b])
          /\ merge_count' = [merge_count EXCEPT ![b] = IF outcome[b].ok THEN @ + 1 ELSE @]
    /\ UNCHANGED <<pc, argVars, fs, files_to_process, batches, fut, outcome,
                   submit_count, start_count, next_file, interrupted,
                   pending_at_interrupt, exit_code, ending, otherVars>>

\* as_completed is exhausted; the with block ends (shutdown(wait=True) has
\* nothing to wait for) and the totals are returned
LeavePool ==
    /\ pc = "collecting"
    /\ yielded = BatchIds
    /\ pc' = "returned"
    /\ UNCHANGED <<argVars, fs, files_to_process, poolVars, aggregate, next_file,
                   interrupted, pending_at_interrupt, exit_code, ending, otherVars>>

\* the body of the loop of the baseline for a file of line_count lines
baseline_count(agg, extension, line_count) ==
    IF line_count > 0
    THEN [total_lines |-> agg.total_lines + line_count,
          extension_counts |-> add_count(agg.extension_counts, extension, line_count),
          file_counts |-> add_count(agg.file_counts, extension, 1)]
    ELSE agg

\* code_counter_benchmark.py: one iteration of the walk on a recognised file
BaselineStep ==
    /\ pc = "walking"
    /\ LET item == files_to_process[next_file]
       IN  aggregate' = baseline_count(aggregate, item.ext, fs[item.id].lines)
    /\ next_file' = next_file + 1
    /\ pc' = IF next_file = Len(files_to_process) THEN "returned" ELSE "walking"
    /\ UNCHANGED <<argVars, fs, files_to_process, poolVars, interrupted,
                   pending_at_interrupt, exit_code, ending, otherVars>>

\* KeyboardInterrupt is raised in the main thread outside the with block of
\* the executor: it propagates to __main__
Interrupt ==
    /\ pc \in {"main", "partition", "walking"}
    /\ interrupted' = TRUE
    /\ pc' = "raised_interrupt"
    /\ UNCHANGED <<argVars, fs, files_to_process, poolVars, aggregate, next_file,
                   pending_at_interrupt, exit_code, ending, otherVars>>

\* KeyboardInterrupt is raised in the main thread inside the with block
\* (while submitting or waiting in as_completed): the block's __exit__ runs
\* executor.shutdown(wait=True), which cancels nothing
InterruptInPool ==
    /\ pc \in {"submit", "collecting"}
    /\ interrupted' = TRUE
    /\ pending_at_interrupt' = {b \in BatchIds : fut[b] = "pending"}
    /\ pc' = "shutdown"
    /\ UNCHANGED <<argVars, fs, files_to_process, poolVars, aggregate, next_file,
                   exit_code, ending, otherVars>>

\* shutdown(wait=True) returns: the workers have run every submitted batch
\* and have been joined; the KeyboardInterrupt propagates to __main__
ShutdownDone ==
    /\ pc = "shutdown"
    /\ \A b \in BatchIds : fut[b] \in {"unsubmitted", "finished"}
    /\ pc' = "raised_interrupt"
    /\ UNCHANGED <<argVars, fs, files_to_process, poolVars, aggregate, next_file,
                   interrupted, pending_at_interrupt, exit_code, ending, otherVars>>

\* main: the totals are displayed, main returns, the process exits
ExitReturned ==
    /\ pc = "returned"
    /\ exit_code' = exit_code_on_return(variant)
    /\ ending' = "success"
    /\ pc' = "exited"
    /\ UNCHANGED <<argVars, fs, files_to_process, poolVars, aggregate, next_file,
                   interrupted, pending_at_interrupt, otherVars>>

\* main: total_lines is None, nothing is displayed, main returns, the
\* process exits
ExitInvalidRoot ==
    /\ pc = "returned_none"
    /\ exit_code' = exit_code_on_return(variant)
    /\ ending' = "invalid_root"
    /\ pc' = "exited"
    /\ UNCHANGED <<argVars, fs, files_to_process, poolVars, aggregate, next_file,
                   interrupted, pending_at_interrupt, otherVars>>

\* __main__: except Exception
ExitError ==
    /\ pc = "raised"
    /\ exit_code' = exit_code_on_error(variant)
    /\ ending' = "error"
    /\ pc' = "exited"
    /\ UNCHANGED <<argVars, fs, files_to_process, poolVars, aggregate, next_file,
                   interrupted, pending_at_interrupt, otherVars>>

\* __main__: except KeyboardInterrupt
ExitCancelled ==
    /\ pc = "raised_interrupt"
    /\ exit_code' = exit_code_on_interrupt(variant)
    /\ ending' = "cancelled"
    /\ pc' = "exited"
    /\ UNCHANGED <<argVars, fs, files_to_process, poolVars, aggregate, next_file,
                   interrupted, pending_at_interrupt, otherVars>>

Next ==
    \/ InvalidRoot
    \/ Collect
    \/ PartitionRaises
    \/ Partition
    \/ Submit
    \/ WorkerStart
    \/ WorkerReturns
    \/ WorkerRaises
    \/ Merge
    \/ LeavePool
    \/ BaselineStep
    \/ Interrupt
    \/ InterruptInPool
    \/ ShutdownDone
    \/ ExitReturned
    \/ ExitInvalidRoot
    \/ ExitError
    \/ ExitCancelled

Spec == Init /\ [][Next]_vars

----------------------------------------------------------------------------
(* Claims on the run.                                                      *)

\* the batches whose worker returned a PartialResult
Produced == {b \in BatchIds : outcome[b].ok}

\* the batches whose worker raised
Failed == {b \in BatchIds : fut[b] = "finished" /\ ~outcome[b].ok}

\* the sum of the batch_lines of the PartialResults of the batches S
RECURSIVE SumBatchLines(_)
SumBatchLines(S) ==
    IF S = {} THEN 0
    ELSE LET b == CHOOSE x \in S : TRUE
         IN  outcome[b].result.batch_lines + SumBatchLines(S \ {b})

\* the run returned its totals from the pool
PoolReturned == pc = "returned" /\ variant \in PoolVariants /\ batches # <<>>

\* C2: in the parallel run no batch is ever submitted, started or merged
\* more than once, and when the run returns every batch has been submitted
\* once and started by one worker once, every PartialResult produced has
\* been merged once (a failed batch never), and total_lines is the sum of
\* the batch_lines of the PartialResults produced, whatever the order of
\* the workers' completions.
C2_EachBatchOnce ==
    /\ \A b \in BatchIds :
          submit_count[b] <= 1 /\ start_count[b] <= 1 /\ merge_count[b] <= 1
    /\ PoolReturned =>
          /\ \A b \in BatchIds :
                /\ submit_count[b] = 1
                /\ start_count[b] = 1
                /\ merge_count[b] = (IF b \in Produced THEN 1 ELSE 0)
          /\ aggregate.total_lines = SumBatchLines(Produced)

\* a run of several batches returned after its batches completed out of the
\* order of submission, with lines counted
C2_Witness ==
    /\ PoolReturned
    /\ Len(batches) >= 2
    /\ Produced = BatchIds
    /\ out_of_order
    /\ aggregate.total_lines > 0

\* the orders in which the batches S can complete
CompletionOrders(S) ==
    {p \in [1..Cardinality(S) -> S] : \A i, j \in 1..Cardinality(S) : p[i] = p[j] => i = j}

\* the aggregate after the results of the batches p[k..] are merged, in
\* that order, into agg
RECURSIVE MergeInOrder(_, _, _)
MergeInOrder(agg, p, k) ==
    IF k > Len(p) THEN agg
    ELSE MergeInOrder(merge_result(agg, outcome[p[k]].result), p, k + 1)

\* C3: while results are merged and when the run returns, the aggregate
\* (total_lines, the per-extension line counts, the per-extension file
\* counts) is the one that merging the PartialResults merged so far yields
\* in every order of completion.
C3_MergeOrderIrrelevant ==
    (pc \in {"collecting", "returned"} /\ variant \in PoolVariants /\ batches # <<>>) =>
        \A p \in CompletionOrders(yielded \cap Produced) :
            aggregate = MergeInOrder(ZeroAggregate, p, 1)

\* a run returned after two batches with different counts for the same
\* extension were merged out of the order of submission
C3_Witness ==
    /\ PoolReturned
    /\ out_of_order
    /\ \E a, b \in Produced :
          /\ a # b
          /\ \E e \in DOMAIN outcome[a].result.batch_extension_counts
                         \cap DOMAIN outcome[b].result.batch_extension_counts :
                outcome[a].result.batch_extension_counts[e]
                    # outcome[b].result.batch_extension_counts[e]

\* the sum over the batches S of a per-extension count of their results
\* (field: "batch_extension_counts" or "batch_file_counts")
RECURSIVE SumCount(_, _, _)
SumCount(S, field, e) ==
    IF S = {} THEN 0
    ELSE LET b == CHOOSE x \in S : TRUE
         IN  Get(outcome[b].result[field], e) + SumCount(S \ {b}, field, e)

\* C4: a batch whose worker raised adds nothing and aborts nothing: at
\* every point of the merge loop the totals are the sums over the yielded
\* batches that did not fail, the run returns only after every batch was
\* yielded, and then the totals are the sums over the non-failing batches;
\* no batch failure ends the run with an error.
C4_FailedBatchIsolated ==
    /\ (pc \in {"collecting", "returned"} /\ variant \in PoolVariants /\ batches # <<>>) =>
          LET merged == yielded \ Failed
          IN  /\ aggregate.total_lines = SumBatchLines(merged)
              /\ \A e \in {RunExts[k] : k \in 1..Len(RunExts)} :
                    /\ Get(aggregate.extension_counts, e)
                          = SumCount(merged, "batch_extension_counts", e)
                    /\ Get(aggregate.file_counts, e)
                          = SumCount(merged, "batch_file_counts", e)
    /\ PoolReturned => yielded = BatchIds /\ yielded \ Failed = Produced
    /\ pc = "raised" => (yielded = {} /\ max_workers = 0)

\* a run returned its totals although a batch failed, a result having been
\* merged after the failed batch was yielded
C4_Witness ==
    /\ PoolReturned
    /\ Failed # {}
    /\ merged_after_failure
    /\ aggregate.total_lines > 0

\* C8: when the path argument does not exist or is not a directory, nothing
\* is collected and no batch is dispatched, and the process ends with a
\* non-zero exit code.
C8_InvalidRootExitsNonZero ==
    (pc = "exited" /\ root_kind # "dir" /\ ~interrupted) =>
        /\ files_to_process = <<>>
        /\ batches = <<>>
        /\ exit_code # 0

\* C9: after a user interrupt that arrives while the coordinator submits or
\* waits for batch results, no batch that had not started is started, and
\* the program can exit whatever is left in the queue.
C9_InterruptStopsDispatch ==
    /\ interrupted => \A b \in pending_at_interrupt : fut[b] = "pending"
    /\ pc = "shutdown" => ENABLED ShutdownDone

WorkerStep ==
    \E b \in BatchIds :
        /\ fut[b] \in {"pending", "running"}
        /\ fut'[b] # fut[b]

\* C13: in the thread-pool mode the workers never read or write the
\* aggregate: a worker's step leaves total_lines, extension_counts and
\* file_counts as they are, and what a worker returns is its batch-local
\* PartialResult, a function of the batch and the files alone; every write
\* to the aggregate is a step of the coordinating thread in its as_completed
\* loop that adds the PartialResult of one finished batch not yet yielded,
\* so no interleaving of the workers loses or duplicates an update.
C13_OnlyCoordinatorWritesAggregate ==
    [][variant = "thread" =>
          /\ WorkerStep => aggregate' = aggregate
          /\ \A b \in BatchIds :
                (outcome'[b] # outcome[b] /\ outcome'[b].ok) =>
                    /\ b \in Running
                    /\ outcome'[b].result = process_file_batch(batches[b], fs)
          /\ aggregate' # aggregate =>
                /\ pc = "collecting"
                /\ fut' = fut /\ outcome' = outcome
                /\ \E b \in BatchIds \ yielded :
                      /\ yielded' = yielded \cup {b}
                      /\ fut[b] = "finished" /\ outcome[b].ok
                      /\ aggregate'.total_lines
                            = aggregate.total_lines + outcome[b].result.batch_lines
                      /\ \A e \in DOMAIN aggregate'.extension_counts :
                            /\ aggregate'.extension_counts[e]
                                  = Get(aggregate.extension_counts, e)
                                    + Get(outcome[b].result.batch_extension_counts, e)
                            /\ aggregate'.file_counts[e]
                                  = Get(aggregate.file_counts, e)
                                    + Get(outcome[b].result.batch_file_counts, e)
    ]_vars

\* two workers of the thread pool are running batches while the coordinator
\* has already merged a PartialResult into the aggregate
C13_Witness ==
    /\ variant = "thread"
    /\ pc = "collecting"
    /\ Cardinality(Running) = 2
    /\ yielded # {}
    /\ aggregate.total_lines > 0

\* the sum of the values of a dict
RECURSIVE SumValues(_)
SumValues(d) ==
    IF DOMAIN d = {} THEN 0
    ELSE LET e == CHOOSE x \in DOMAIN d : TRUE
         IN  d[e] + SumValues([x \in DOMAIN d \ {e} |-> d[x]])

\* C16: after every merge step and at the end of the run the aggregate is
\* self-consistent: total_lines is the sum of extension_counts over all
\* extensions, extension_counts and file_counts have the same keys, and for
\* every extension present extension_counts[ext] >= file_counts[ext] >= 1.
C16_AggregateConsistent ==
    /\ aggregate.total_lines = SumValues(aggregate.extension_counts)
    /\ DOMAIN aggregate.extension_counts = DOMAIN aggregate.file_counts
    /\ \A e \in DOMAIN aggregate.extension_counts :
          /\ aggregate.extension_counts[e] >= aggregate.file_counts[e]
          /\ aggregate.file_counts[e] >= 1

\* a pool run has returned totals over two extensions, merged from several
\* batches, one extension with more lines than files, while the work list
\* held a file without lines and a file the turbo worker passes over
C16_Witness ==
    /\ PoolReturned
    /\ Cardinality(yielded) >= 2
    /\ Cardinality(DOMAIN aggregate.file_counts) = 2
    /\ \E e \in DOMAIN aggregate.file_counts :
          /\ aggregate.file_counts[e] >= 2
          /\ aggregate.extension_counts[e] > aggregate.file_counts[e]
    /\ \E i \in DOMAIN fs : fs[i].lines = 0
    /\ \E i \in DOMAIN fs : fs[i].turbo_skips

----------------------------------------------------------------------------
(* SpecCompare: code_counter.py (thread pool) and                          *)
(* code_counter_benchmark.py (single-threaded) run over the same tree.     *)

\* the orders in which the members of S can be met (rglob's order is the
\* file system's)
Listings(S) ==
    {s \in [1..Cardinality(S) -> S] :
        \A i, j \in 1..Cardinality(S) : i # j => s[i] # s[j]}

\* two orders in which n futures complete: as submitted, and reversed
FirstOrLastFirst(n) ==
    {[i \in 1..n |-> i], [i \in 1..n |-> n + 1 - i]}

\* files_to_process as the list built from the files met in the order of
\* listing: (file_path, extension) tuples, the path naming the file
as_work_list(listing) ==
    [i \in 1..Len(listing) |-> [id |-> listing[i].path, ext |-> listing[i].ext]]

\* what the Line Counter returns for each file of the tree
files_of(tree, lines) ==
    [p \in tree |-> [lines |-> lines[p], turbo_skips |-> FALSE]]

\* code_counter.py:182-196: the as_completed loop over batches none of
\* which fails, the futures completing in the order given
RECURSIVE merge_batches(_, _, _, _, _)
merge_batches(agg, bb, files, order, k) ==
    IF k > Len(order) THEN agg
    ELSE merge_batches(
             collect_result(agg, [ok |-> TRUE,
                                  result |-> process_file_batch(bb[order[k]], files)]),
             bb, files, order, k + 1)

\* code_counter.py:158-161: file_batches
thread_batches(work_list, workers) ==
    file_batches(work_list, batch_size_thread(Len(work_list), workers))

\* code_counter.py: count_lines_in_directory from the collected list on
\* (total_lines, extension_counts, file_counts of the returned tuple)
count_lines_in_directory(work_list, files, workers, order) ==
    IF Len(work_list) = 0
    THEN ZeroAggregate
    ELSE merge_batches(ZeroAggregate, thread_batches(work_list, workers), files, order, 1)

\* code_counter_benchmark.py:83-106: the loop over the recognised files met
RECURSIVE baseline_loop(_, _, _, _)
baseline_loop(agg, listing, files, k) ==
    IF k > Len(listing) THEN agg
    ELSE baseline_loop(
             baseline_count(agg, listing[k].ext, files[listing[k].path].lines),
             listing, files, k + 1)

\* code_counter_benchmark.py: count_lines_in_directory
count_lines_in_directory_benchmark(listing, files) ==
    baseline_loop(ZeroAggregate, listing, files, 1)

CompareRoots ==
    {<<Plain("/"), Plain("home"), Plain("proj")>>,
     <<Plain("/"), Plain("build"), Plain("proj")>>}

CompareFiles ==
    {[dirs |-> <<>>, name |-> <<"a", "py">>],
     [dirs |-> <<>>, name |-> <<"b", "js">>],
     [dirs |-> <<>>, name |-> <<"a", "txt">>],
     [dirs |-> <<Plain("src")>>, name |-> <<"a", "py">>],
     [dirs |-> <<Plain("src")>>, name |-> <<"a", "PY">>],
     [dirs |-> <<Plain("src")>>, name |-> <<"b", "js">>],
     [dirs |-> <<Plain("build")>>, name |-> <<"a", "py">>]}

\* the counts the Line Counter returns for the files of a comparison
LineCounts == {0, 1, 2}

InitCompare ==
    /\ q_root \in CompareRoots
    /\ q_tree \in SubsetsUpTo(CompareFiles, MaxCompareFiles)
    /\ q_lines \in [q_tree -> LineCounts]
    /\ q_workers \in 1..MaxCompareWorkers
    /\ q_ran = {}
    /\ q_thread = ZeroAggregate
    /\ q_baseline = ZeroAggregate
    /\ PartIdle
    /\ CountIdle
    /\ CollectIdle
    /\ RunIdle
    /\ BatchIdle

\* python code_counter.py --threads q_workers root: no batch fails
RunThread ==
    /\ "thread" \notin q_ran
    /\ \E listing \in Listings(collect_files_to_process(
                                   q_root, q_tree, extensions_thread, skip_dirs_thread)) :
          LET work_list == as_work_list(listing)
          IN  \E order \in FirstOrLastFirst(Len(thread_batches(work_list, q_workers))) :
                 q_thread' = count_lines_in_directory(
                                 work_list, files_of(q_tree, q_lines), q_workers, order)
    /\ q_ran' = q_ran \cup {"thread"}
    /\ UNCHANGED <<q_root, q_tree, q_lines, q_workers, q_baseline>>
    /\ UNCHANGED <<partVars, countVars, collectVars, runVars, batchVars>>

\* python code_counter_benchmark.py root
RunBaseline ==
    /\ "baseline" \notin q_ran
    /\ \E listing \in Listings(baseline_walk(q_root, q_tree)) :
          q_baseline' = count_lines_in_directory_benchmark(
                            listing, files_of(q_tree, q_lines))
    /\ q_ran' = q_ran \cup {"baseline"}
    /\ UNCHANGED <<q_root, q_tree, q_lines, q_workers, q_thread>>
    /\ UNCHANGED <<partVars, countVars, collectVars, runVars, batchVars>>

NextCompare == RunThread \/ RunBaseline

SpecCompare == InitCompare /\ [][NextCompare]_vars

\* C11: for every directory tree and every worker count >= 1, when no batch
\* fails the thread-pool program returns the same total_lines, the same
\* per-extension line counts and the same per-extension file counts as the
\* single-threaded baseline run over the same tree.
C11_ThreadEqualsBaseline ==
    q_ran = {"thread", "baseline"} =>
        /\ q_thread.total_lines = q_baseline.total_lines
        /\ q_thread.extension_counts = q_baseline.extension_counts
        /\ q_thread.file_counts = q_baseline.file_counts

\* both programs have run with two workers or more over a tree whose
\* recognised files fall into several batches, hold two extensions and
\* include a file without lines
C11_Witness ==
    /\ q_ran = {"thread", "baseline"}
    /\ q_workers >= 2
    /\ Cardinality(DOMAIN q_thread.extension_counts) = 2
    /\ q_thread.total_lines >= 3
    /\ \E f \in q_tree : get_file_extension(f) = ".py" /\ q_lines[f] = 0
    /\ Len(thread_batches(as_work_list(CHOOSE l \in Listings(collect_files_to_process(
               q_root, q_tree, extensions_thread, skip_dirs_thread)) : TRUE),
           q_workers)) >= 3

----------------------------------------------------------------------------
(* SpecBatch: one worker's call, process_file_batch or                     *)
(* process_file_batch_turbo, on a batch of at most MaxBatchFiles files.    *)

\* what the disk can hold at a path: the bytes; readable, FALSE when
\* opening or reading raises OSError (permission denied, the file
\* vanished); stat_ok, FALSE when stat() raises; rejected, TRUE when the
\* size is over 50 MB, or over 10240 bytes with is_text_file_fast FALSE
BatchContents == {<<>>, <<32, 10>>, <<97, 10, 97>>}

DiskFiles ==
    [content : BatchContents, readable : BOOLEAN, stat_ok : BOOLEAN,
     rejected : BOOLEAN]

\* code_counter.py:99: line_count = count_lines_in_file(file_path), for
\* each path of the disk
thread_sees(disk) ==
    [id \in DOMAIN disk |->
        [lines |-> count_lines_in_file(disk[id].content, disk[id].readable),
         turbo_skips |-> FALSE]]

\* code_counter_turbo.py:104-121: the stat, the three size checks and
\* line_count = count_lines_fast_bytes(file_path), for each path of the disk
turbo_sees(disk, mmap_ok, buffer_size) ==
    [id \in DOMAIN disk |->
        [lines |-> count_lines_fast_bytes(disk[id].content, disk[id].readable,
                                          mmap_ok, buffer_size),
         turbo_skips |-> \/ ~disk[id].stat_ok             \* except Exception: continue
                         \/ Len(disk[id].content) = 0     \* file_size == 0
                         \/ disk[id].rejected]]

BatchVariants == {"thread", "turbo"}

InitBatch ==
    /\ b_pc = "input"
    /\ b_variant \in BatchVariants
    /\ b_batch \in {WorkList(n, 0) : n \in 0..MaxBatchFiles}
    /\ b_disk \in [1..Len(b_batch) -> DiskFiles]
    /\ b_result = EmptyResult
    /\ PartIdle
    /\ CountIdle
    /\ CollectIdle
    /\ RunIdle
    /\ CompareIdle

\* a worker of code_counter.py runs process_file_batch(file_batch)
ProcessThread ==
    /\ b_pc = "input"
    /\ b_variant = "thread"
    /\ b_result' = process_file_batch(b_batch, thread_sees(b_disk))
    /\ b_pc' = "done"
    /\ UNCHANGED <<b_variant, b_disk, b_batch>>
    /\ UNCHANGED <<partVars, countVars, collectVars, runVars, compareVars>>

\* a worker of code_counter_turbo.py runs process_file_batch_turbo(args)
ProcessTurbo ==
    /\ b_pc = "input"
    /\ b_variant = "turbo"
    /\ \E mmap_ok \in BOOLEAN, buffer_size \in 1..MaxBufferSize :
          b_result' = process_file_batch_turbo(
                          b_batch, turbo_sees(b_disk, mmap_ok, buffer_size))
    /\ b_pc' = "done"
    /\ UNCHANGED <<b_variant, b_disk, b_batch>>
    /\ UNCHANGED <<partVars, countVars, collectVars, runVars, compareVars>>

NextBatch == ProcessThread \/ ProcessTurbo

SpecBatch == InitBatch /\ [][NextBatch]_vars

\* the file cannot be read by the variant's worker: open or read raises;
\* for the turbo worker, which calls stat() first, also when stat() raises
CannotBeRead(v, file) ==
    \/ ~file.readable
    \/ v = "turbo" /\ ~file.stat_ok

\* the batch without its i-th item
WithoutItem(file_batch, i) ==
    SubSeq(file_batch, 1, i - 1) \o SubSeq(file_batch, i + 1, Len(file_batch))

\* the results the variant's worker can return for a batch
ResultsFor(v, file_batch, disk) ==
    IF v = "thread"
    THEN {process_file_batch(file_batch, thread_sees(disk))}
    ELSE {process_file_batch_turbo(file_batch, turbo_sees(disk, mmap_ok, buffer_size)) :
             mmap_ok \in BOOLEAN, buffer_size \in 1..MaxBufferSize}

====
